---- MODULE Spec2Model ----
(***************************************************************************)
(* A model of the stat_functions crate: the incomplete beta ratio betain   *)
(* (src/beta.rs), the normal CDF pnorm (src/pnorm.rs) and the Student's-t  *)
(* wrapper (src/students_t.rs).                                            *)
(*                                                                         *)
(* f64 values are modelled as the IEEE specials NaN, +inf, -inf and finite *)
(* fixed-point numbers with Scale steps per unit; finite arithmetic rounds *)
(* toward zero onto that grid, the specials follow IEEE-754.  The          *)
(* transcendental functions (lgamma, ln, exp) and the rational polynomials *)
(* of pnorm are kept as terms over their arguments.                        *)
(***************************************************************************)
EXTENDS Integers, Sequences, FiniteSets, TLC

VARIABLES pc, op, fr, ret, ctx, lbetaCalls, iters

vars == <<pc, op, fr, ret, ctx, lbetaCalls, iters>>

(***************************************************************************)
(* f64                                                                     *)
(***************************************************************************)
Radix == 100
Scale == Radix * Radix

Fin(n) == [k |-> "fin", v |-> n]
NaN == [k |-> "nan", v |-> 0]
PInf == [k |-> "inf", v |-> 1]
NInf == [k |-> "inf", v |-> -1]
Zero == Fin(0)
One == Fin(Scale)
Half == Fin(Scale \div 2)

IsNaN(a) == a.k = "nan"
IsInf(a) == a.k = "inf"
IsFin(a) == a.k = "fin"

AbsI(n) == IF n < 0 THEN -n ELSE n
SgnI(n) == IF n < 0 THEN -1 ELSE IF n > 0 THEN 1 ELSE 0

\* sign of a non-NaN f64: -1, 0, 1
Sgn(a) == IF IsInf(a) THEN a.v ELSE SgnI(a.v)

\* a * b on the grid, rounded toward zero, without leaving 32 bits
MulI(a, b) ==
    LET x == AbsI(a)
        y == AbsI(b)
        xh == x \div Scale
        xl == x % Scale
        yh == y \div Scale
        yl == y % Scale
        m == xh * yh * Scale + xh * yl + xl * yh + (xl * yl) \div Scale
    IN  SgnI(a) * SgnI(b) * m

\* a / b on the grid (b # 0), rounded toward zero, by long division
DivI(a, b) ==
    LET x == AbsI(a)
        y == AbsI(b)
        q0 == x \div y
        r0 == (x % y) * Radix
        q1 == r0 \div y
        r1 == (r0 % y) * Radix
        q2 == r1 \div y
    IN  SgnI(a) * SgnI(b) * (q0 * Scale + q1 * Radix + q2)

FNeg(a) == IF IsNaN(a) THEN NaN ELSE [k |-> a.k, v |-> -a.v]

FAbs(a) == IF IsNaN(a) THEN NaN ELSE [k |-> a.k, v |-> AbsI(a.v)]

FAdd(a, b) ==
    IF IsNaN(a) \/ IsNaN(b) THEN NaN
    ELSE IF IsInf(a) /\ IsInf(b) THEN (IF a.v = b.v THEN a ELSE NaN)
    ELSE IF IsInf(a) THEN a
    ELSE IF IsInf(b) THEN b
    ELSE Fin(a.v + b.v)

FSub(a, b) == FAdd(a, FNeg(b))

FMul(a, b) ==
    IF IsNaN(a) \/ IsNaN(b) THEN NaN
    ELSE IF IsInf(a) \/ IsInf(b)
         THEN (IF Sgn(a) = 0 \/ Sgn(b) = 0 THEN NaN
               ELSE [k |-> "inf", v |-> Sgn(a) * Sgn(b)])
    ELSE Fin(MulI(a.v, b.v))

\* a zero divisor is +0.0: negative zero is not modelled
FDiv(a, b) ==
    IF IsNaN(a) \/ IsNaN(b) THEN NaN
    ELSE IF IsInf(a) THEN (IF IsInf(b) THEN NaN
                           ELSE [k |-> "inf", v |-> a.v * (IF Sgn(b) < 0 THEN -1 ELSE 1)])
    ELSE IF IsInf(b) THEN Zero
    ELSE IF b.v = 0 THEN (IF a.v = 0 THEN NaN ELSE [k |-> "inf", v |-> SgnI(a.v)])
    ELSE Fin(DivI(a.v, b.v))

\* IEEE comparisons: every comparison with NaN is false
FLt(a, b) ==
    /\ ~IsNaN(a)
    /\ ~IsNaN(b)
    /\ IF IsInf(a) /\ IsInf(b) THEN a.v < b.v
       ELSE IF IsInf(a) THEN a.v < 0
       ELSE IF IsInf(b) THEN b.v > 0
       ELSE a.v < b.v

FEq(a, b) == ~IsNaN(a) /\ ~IsNaN(b) /\ a = b

FLe(a, b) == FLt(a, b) \/ FEq(a, b)

\* `as i64`: saturating, NaN to 0, toward zero; i64::MAX is the largest
\* integer of the model
I64_MAX == 2147483647

AsI64(a) ==
    IF IsNaN(a) THEN 0
    ELSE IF IsInf(a) THEN a.v * I64_MAX
    ELSE SgnI(a.v) * (AbsI(a.v) \div Scale)

(***************************************************************************)
(* beta.rs                                                                 *)
(***************************************************************************)
\* lgamma(p) + lgamma(q) - lgamma(p + q): f64 addition commutes, so the
\* term is keyed by the unordered pair and the sum
LBetaRaw(p, q) == [k |-> "lbeta", args |-> {p, q}, sum |-> FAdd(p, q)]

CheckBetaParams(alpha, beta) ==
    IF FLe(alpha, Zero) \/ FLe(beta, Zero) THEN "InvalidBetaParameters" ELSE "Ok"

Err(e) == [k |-> "err", e |-> e]
Ok(v) == [k |-> "ok", v |-> v]
Panic == [k |-> "panic"]
Pending == [k |-> "pending"]

LBeta(p, q) ==
    IF CheckBetaParams(p, q) # "Ok" THEN Err("InvalidBetaParameters")
    ELSE Ok(LBetaRaw(p, q))

None == [k |-> "none"]
Some(v) == [k |-> "some", v |-> v]

InUnitInterval(x) == FLe(Zero, x) /\ FLe(x, One)

\* 1.0e-14 on the grid: its smallest positive step
AccuracyUnits == 1
Accuracy == Fin(AccuracyUnits)

\* the tail selection with p <= psq * x for p < psq * x
TailSelect_Le(p, q, x) ==
    IF FLe(p, FMul(FAdd(p, q), x))
    THEN [xx |-> FSub(One, x), cx |-> x, pp |-> q, qq |-> p, flip |-> TRUE]
    ELSE [xx |-> x, cx |-> FSub(One, x), pp |-> p, qq |-> q, flip |-> FALSE]

TailSelect(p, q, x) ==
    LET psq == FAdd(p, q)
    IN  IF FLt(p, FMul(psq, x))
        THEN [xx |-> FSub(One, x), cx |-> x, pp |-> q, qq |-> p, flip |-> TRUE]
        ELSE [xx |-> x, cx |-> FSub(One, x), pp |-> p, qq |-> q, flip |-> FALSE]

InitNs(qq, cx, psq) == AsI64(FAdd(qq, FMul(cx, psq)))

InitRx(ns, xx, cx) == IF ns = 0 THEN xx ELSE FDiv(xx, cx)

\* the default log-beta computed from (q, p + q) for (p, q)
UnwrapLnbeta_WrongArgs(lnbeta, p, q) ==
    IF lnbeta.k = "some" THEN lnbeta.v ELSE LBetaRaw(q, FAdd(p, q))

UnwrapLnbeta(lnbeta, p, q) == IF lnbeta.k = "some" THEN lnbeta.v ELSE LBetaRaw(p, q)

\* lines 74-79: the locals at the head of the loop
Frame(t, psq, lnbeta, ns) ==
    [lnbeta |-> lnbeta,
     psq |-> psq, xx |-> t.xx, cx |-> t.cx, pp |-> t.pp, qq |-> t.qq,
     flip |-> t.flip, term |-> One, ai |-> One, value |-> One,
     ns |-> ns, temp |-> FSub(t.qq, One), rx |-> InitRx(ns, t.xx, t.cx)]

FrameOf(t, psq, lnbeta) == Frame(t, psq, lnbeta, InitNs(t.qq, t.cx, psq))

\* the locals of betain at the head of its loop (lines 63-79)
LoopInit(p, q, x, lnbeta) ==
    FrameOf(TailSelect(p, q, x), FAdd(p, q), UnwrapLnbeta(lnbeta, p, q))

NoFrame == [lnbeta |-> Zero, psq |-> Zero, xx |-> Zero, cx |-> Zero, pp |-> Zero,
            qq |-> Zero, flip |-> FALSE, term |-> Zero, ai |-> Zero, value |-> Zero,
            ns |-> 0, temp |-> Zero, rx |-> Zero]

WithTerm(f, term) ==
    [f EXCEPT !.term = term, !.value = FAdd(f.value, term), !.temp = FAbs(term)]

\* lines 82-84
TermUpdate(f) ==
    WithTerm(f, FMul(f.term, FDiv(FMul(f.temp, f.rx), FAdd(f.pp, f.ai))))

\* line 86
Converged(temp, value) == FLe(temp, Accuracy) /\ FLe(temp, FMul(Accuracy, value))

\* lines 87-90: value * exp(pp*ln(xx) + (qq-1)*ln(cx) - lnbeta) / pp, then the flip
Rescale(f) ==
    [k |-> "betain", series |-> f.value, pp |-> f.pp, xx |-> f.xx, qq |-> f.qq,
     cx |-> f.cx, lnbeta |-> f.lnbeta, flip |-> f.flip]

\* the match on ns without the arm for 0
MatchNs_NoPivot(f) ==
    IF f.ns >= 0 THEN [f EXCEPT !.temp = FSub(f.qq, f.ai)]
    ELSE [f EXCEPT !.temp = f.psq, !.psq = FAdd(f.psq, One)]

\* lines 96-106: the match on ns, after ai and ns have moved
MatchNs(f) ==
    IF f.ns >= 1 THEN [f EXCEPT !.temp = FSub(f.qq, f.ai)]
    ELSE IF f.ns = 0 THEN [f EXCEPT !.temp = FSub(f.qq, f.ai), !.rx = f.xx]
    ELSE [f EXCEPT !.temp = f.psq, !.psq = FAdd(f.psq, One)]

\* lines 94-106
Advance(f) == MatchNs([f EXCEPT !.ai = FAdd(f.ai, One), !.ns = f.ns - 1])

Hang == [k |-> "hang"]

\* betain without the x == 1.0 shortcut
BetainEntry_NoUpperShortcut(p, q, x) ==
    IF CheckBetaParams(p, q) # "Ok" THEN Err("InvalidBetaParameters")
    ELSE IF ~InUnitInterval(x) THEN Err("InvalidProbability")
    ELSE IF FEq(x, Zero) THEN Ok(x)
    ELSE Pending

\* lines 56-62: what betain returns before its loop, Pending when it enters it
BetainEntry(p, q, x) ==
    IF CheckBetaParams(p, q) # "Ok" THEN Err("InvalidBetaParameters")
    ELSE IF ~InUnitInterval(x) THEN Err("InvalidProbability")
    ELSE IF FEq(x, Zero) \/ FEq(x, One) THEN Ok(x)
    ELSE Pending

\* lines 86-106, after the term update
AfterUpdate(g) ==
    IF Converged(g.temp, g.value)
    THEN [done |-> TRUE, f |-> g, ret |-> Ok(Rescale(g))]
    ELSE [done |-> FALSE, f |-> Advance(g), ret |-> Pending]

\* one pass of the loop body (lines 82-106); the updated locals are bound once
LoopBody(f) == CHOOSE b \in {AfterUpdate(g) : g \in {TermUpdate(f)}} : TRUE

MaxIter == 40

NextPass(b) == IF b.done THEN b ELSE LoopBody(b.f)

Outcome(b) == IF b.done THEN b.ret ELSE Hang

\* the loop run from f for at most fuel passes: its return value, or Hang
RunLoop(f, fuel) ==
    LET pass[i \in 0..fuel] ==
            IF i = 0 THEN [done |-> FALSE, f |-> f, ret |-> Pending]
            ELSE NextPass(pass[i - 1])
    IN  Outcome(pass[fuel])

\* betain as a function of its arguments; Hang when MaxIter passes do not converge
Betain(p, q, x, lnbeta) ==
    IF BetainEntry(p, q, x) = Pending
    THEN RunLoop(LoopInit(p, q, x, lnbeta), MaxIter)
    ELSE BetainEntry(p, q, x)

(***************************************************************************)
(* pnorm.rs                                                                *)
(***************************************************************************)
IsNum(v) == v.k \in {"fin", "nan", "inf"}

\* 1.0 - p, computed when p is a number
OneMinus(p) == IF IsNum(p) THEN FSub(One, p) ELSE [k |-> "1-", of |-> p]

\* the thresholds of _pnorm on the grid: 0.67448975 and sqrt(32) rounded down
\* to it (no grid value lies between), 37.5193 and 8.2924 exactly, and
\* f64::EPSILON * 0.5, below its smallest positive step
A_MAX == 6744
M_SQRT_32 == 56568
X_FAR == 375193
X_NEAR == 82924
EPS == 0

\* ldexp(ldexp(x, 4).trunc(), -4)
Trunc16(x) ==
    LET n == (AbsI(x.v) * 16) \div Scale
    IN  Fin(SgnI(x.v) * ((n * Scale) \div 16))

\* lines 49-53: exp(-xsq*xsq/2 - del/2) * temp
DoDel(x, temp) ==
    LET xsq == Trunc16(x)
        del == FMul(FSub(x, xsq), FAdd(x, xsq))
        two == Fin(2 * Scale)
        e == FSub(FDiv(FMul(FNeg(xsq), xsq), two), FDiv(del, two))
    IN  [k |-> "exp*", e |-> e, temp |-> temp]

\* lines 55-60
SwapTail(x, lower_tail, p) ==
    IF FLt(x, Zero)
    THEN (IF lower_tail THEN p ELSE OneMinus(p))
    ELSE (IF lower_tail THEN OneMinus(p) ELSE p)

\* lines 85-86: the half-open ranges (a..b).contains(&x)
InRangeC(x, lower_tail) ==
    \/ lower_tail /\ FLe(Fin(-X_FAR), x) /\ FLt(x, Fin(X_NEAR))
    \/ ~lower_tail /\ FLe(Fin(-X_NEAR), x) /\ FLt(x, Fin(X_FAR))

\* the branch of _pnorm's if-chain that runs (lines 62, 78, 85, 95)
PnormRegion(x, lower_tail) ==
    LET y == FAbs(x)
    IN  IF FLe(y, Fin(A_MAX)) THEN "A"
        ELSE IF FLe(y, Fin(M_SQRT_32)) THEN "B"
        ELSE IF InRangeC(x, lower_tail) THEN "C"
        ELSE "U"

\* lines 63-77: 0.5 + temp or 0.5 - temp with temp = x * (xnum + a) / (xden + b),
\* xnum and xden polynomials in x*x; kept as 0.5 + s * |x| * R(x*x)
RegionA(x, lower_tail) ==
    LET y == FAbs(x)
        xsq == IF FLt(Fin(EPS), y) THEN Some(FMul(x, x)) ELSE None
        s == IF lower_tail THEN Sgn(x) ELSE -Sgn(x)
    IN  [k |-> "0.5+", s |-> s, y |-> y, xsq |-> xsq]

\* lines 79-84
RegionB(x, lower_tail) ==
    LET y == FAbs(x)
        temp == [k |-> "ratCD", y |-> y]
    IN  SwapTail(x, lower_tail, DoDel(y, temp))

\* lines 88-94
RegionC(x, lower_tail) ==
    LET y == FAbs(x)
        xsq == FDiv(One, FMul(x, x))
        temp == [k |-> "ratPQ", xsq |-> xsq, y |-> y]
    IN  SwapTail(x, lower_tail, DoDel(x, temp))

\* the private _pnorm (lines 20-98)
PnormFinite(x, lower_tail) ==
    LET r == PnormRegion(x, lower_tail)
    IN  IF r = "A" THEN RegionA(x, lower_tail)
        ELSE IF r = "B" THEN RegionB(x, lower_tail)
        ELSE IF r = "C" THEN RegionC(x, lower_tail)
        ELSE SwapTail(x, lower_tail, Zero)

\* pnorm without its NaN arm
Pnorm_NoNaNArm(z, lower_tail) ==
    IF IsInf(z)
    THEN (IF z.v < 0 THEN (IF lower_tail THEN Zero ELSE One)
          ELSE (IF lower_tail THEN One ELSE Zero))
    ELSE PnormFinite(z, lower_tail)

\* lines 3-16
Pnorm(z, lower_tail) ==
    IF IsInf(z)
    THEN (IF z.v < 0 THEN (IF lower_tail THEN Zero ELSE One)
          ELSE (IF lower_tail THEN One ELSE Zero))
    ELSE IF IsNaN(z) THEN z
    ELSE PnormFinite(z, lower_tail)

(***************************************************************************)
(* students_t.rs                                                           *)
(***************************************************************************)
CheckStudentsTParam(v) ==
    IF FLe(v, Zero) THEN "InvalidStudentsTParameter" ELSE "Ok"

\* lines 16-21: Err, Panic (the unwrap of lbeta) or Ok(context)
StudentsTNew(v) ==
    IF CheckStudentsTParam(v) # "Ok" THEN Err("InvalidStudentsTParameter")
    ELSE LET l == LBeta(FMul(Half, v), Half)
         IN  IF l.k # "ok" THEN Panic
             ELSE Ok([v |-> v,
                      konst |-> [k |-> "konst", v |-> v, lnbeta |-> l.v],
                      lnbeta |-> l.v])

\* lines 45-47
LStudentsTPdf(t, v, konst) ==
    [k |-> "lpdf", konst |-> konst, q |-> FDiv(FMul(t, t), v), v |-> v]

\* lines 50-52
StudentsTPdf(t, v, konst) == [k |-> "exp", of |-> LStudentsTPdf(t, v, konst)]

HalfOf(v) == IF IsNum(v) THEN FMul(Half, v) ELSE [k |-> "0.5*", of |-> v]

\* lines 57-62: the unwrap of betain's result b, then z or 1 - z
CdfOf(t, b) ==
    IF b.k = "err" THEN Panic
    ELSE IF b.k = "hang" THEN Hang
    ELSE IF FLt(t, Zero) THEN HalfOf(b.v) ELSE OneMinus(HalfOf(b.v))

\* lines 55-63: Panic when the unwrap of betain's result fails
StudentsTCdf(t, v, lnbeta) ==
    CdfOf(t, Betain(FMul(Half, v), Half, FDiv(v, FAdd(v, FMul(t, t))), lnbeta))

\* a value that came back, or the panic or hang that took its place
Returned(r, wrapped) == IF r.k \in {"panic", "hang"} THEN r ELSE wrapped

OkOf(r) == Returned(r, Ok(r))

\* the free function pt (lines 75-78)
FreePt(t, v) ==
    IF CheckStudentsTParam(v) # "Ok" THEN Err("InvalidStudentsTParameter")
    ELSE OkOf(StudentsTCdf(t, v, None))

(***************************************************************************)
(* The inputs                                                              *)
(***************************************************************************)
MaxP2 == 4
XDen == 4
ZSpread == 1
MaxV == 2
MaxT2 == 2

\* p, q: the specials, non-positive values and the halves up to MaxP2 / 2
Params ==
    {NaN, PInf, Zero, Fin(-Scale)} \cup {Fin((k * Scale) \div 2) : k \in 1..MaxP2}

\* x: the specials, values outside [0,1], the XDen-ths of [0,1] and a third
XVals ==
    {NaN, PInf, Fin(-(Scale \div XDen)), Fin(Scale + Scale \div XDen), Fin(Scale \div 3)}
        \cup {Fin((k * Scale) \div XDen) : k \in 0..XDen}

\* the cached log-beta a caller may pass: none, lbeta(p, q).unwrap(), or another number
LnbetaArgs(p, q) ==
    {None, Some(Zero)} \cup (IF LBeta(p, q).k = "ok" THEN {Some(LBeta(p, q).v)} ELSE {})

\* z: the specials and both signs of every value within ZSpread steps of a threshold
ZVals ==
    {NaN, PInf, NInf} \cup
    {Fin(s * (t + d)) : s \in {-1, 1}, t \in {0, A_MAX, M_SQRT_32, X_NEAR, X_FAR},
                        d \in (-ZSpread)..ZSpread}

VVals == {NaN, PInf, Zero, Fin(-Scale), Fin(1)} \cup {Fin(k * Scale) : k \in 1..MaxV}

TVals == {NaN, PInf, NInf} \cup {Fin((k * Scale) \div 2) : k \in (-MaxT2)..MaxT2}

(***************************************************************************)
(* The calls                                                               *)
(***************************************************************************)
Val(v) == [k |-> "val", v |-> v]

ValOf(r) == Returned(r, Val(r))

Call(name, args) == [name |-> name, args |-> args]

Init ==
    /\ pc = "idle"
    /\ op = Call("none", <<>>)
    /\ fr = NoFrame
    /\ ret = Pending
    /\ ctx = None
    /\ lbetaCalls = 0
    /\ iters = 0

\* a call that returns at once with r (a panic ends the program)
Returns(name, args, r) ==
    /\ pc = "idle"
    /\ op' = Call(name, args)
    /\ ret' = r
    /\ pc' = IF r.k = "panic" THEN "panicked" ELSE "done"
    /\ fr' = NoFrame
    /\ lbetaCalls' = 0
    /\ iters' = 0

\* betain up to the head of its loop (lines 56-79)
BetainCall(p, q, x, lnbeta) ==
    /\ pc = "idle"
    /\ LET e == BetainEntry(p, q, x)
       IN  IF e # Pending
           THEN Returns("betain", <<p, q, x, lnbeta>>, e)
           ELSE /\ op' = Call("betain", <<p, q, x, lnbeta>>)
                /\ ret' = Pending
                /\ pc' = "loop"
                /\ fr' = LoopInit(p, q, x, lnbeta)
                /\ lbetaCalls' = IF lnbeta = None THEN 1 ELSE 0
                /\ iters' = 0
    /\ UNCHANGED ctx

\* one pass of betain's loop (lines 81-108)
BetainLoop ==
    /\ pc = "loop"
    /\ iters < MaxIter
    /\ \E b \in {LoopBody(fr)} :
          /\ fr' = b.f
          /\ ret' = b.ret
          /\ pc' = IF b.done THEN "done" ELSE "loop"
    /\ iters' = iters + 1
    /\ UNCHANGED <<op, ctx, lbetaCalls>>

PnormCall(z, lower_tail) ==
    /\ pc = "idle"
    /\ Returns("pnorm", <<z, lower_tail>>, Val(Pnorm(z, lower_tail)))
    /\ UNCHANGED ctx

NewCall(v) ==
    /\ pc = "idle"
    /\ LET r == StudentsTNew(v)
       IN  /\ Returns("new", <<v>>, r)
           /\ ctx' = IF r.k = "ok" THEN Some(r.v) ELSE ctx

DtCall(t) ==
    /\ pc = "idle"
    /\ ctx # None
    /\ Returns("dt", <<t>>, Val(StudentsTPdf(t, ctx.v.v, ctx.v.konst)))
    /\ UNCHANGED ctx

LdtCall(t) ==
    /\ pc = "idle"
    /\ ctx # None
    /\ Returns("ldt", <<t>>, Val(LStudentsTPdf(t, ctx.v.v, ctx.v.konst)))
    /\ UNCHANGED ctx

PtCall(t) ==
    /\ pc = "idle"
    /\ ctx # None
    /\ Returns("pt", <<t>>, ValOf(StudentsTCdf(t, ctx.v.v, Some(ctx.v.lnbeta))))
    /\ UNCHANGED ctx

FreePtCall(t, v) ==
    /\ pc = "idle"
    /\ Returns("free_pt", <<t, v>>, FreePt(t, v))
    /\ UNCHANGED ctx

\* the caller takes the result and goes on to its next call
Continue ==
    /\ pc = "done"
    /\ pc' = "idle"
    /\ op' = Call("none", <<>>)
    /\ ret' = Pending
    /\ fr' = NoFrame
    /\ lbetaCalls' = 0
    /\ iters' = 0
    /\ UNCHANGED ctx

BetainCalls ==
    /\ pc = "idle"
    /\ \E p \in Params, q \in Params, x \in XVals :
          \E l \in LnbetaArgs(p, q) : BetainCall(p, q, x, l)

Next ==
    \/ BetainCalls
    \/ BetainLoop
    \/ \E z \in ZVals, lt \in BOOLEAN : PnormCall(z, lt)
    \/ \E v \in VVals : NewCall(v)
    \/ \E t \in TVals : DtCall(t)
    \/ \E t \in TVals : LdtCall(t)
    \/ \E t \in TVals : PtCall(t)
    \/ \E t \in TVals, v \in VVals : FreePtCall(t, v)
    \/ Continue

Spec == Init /\ [][Next]_vars

\* a running loop keeps running: the program is sequential and nothing preempts it
FairSpec == Spec /\ WF_vars(BetainLoop)

(***************************************************************************)
(* Properties                                                              *)
(***************************************************************************)
IsCall(name) == op.name = name
Arg(i) == op.args[i]

\* p > 0 and q > 0
Positive(p, q) == FLt(Zero, p) /\ FLt(Zero, q)

\* every finite input's loop converges before MaxIter passes: a loop that
\* reaches the bound is one whose term is NaN, and a NaN term stays NaN
LoopBoundSuffices == (pc = "loop" /\ iters = MaxIter) => IsNaN(fr.term)

NaNTermStays == [][(pc = "loop" /\ IsNaN(fr.term)) => (pc' = "loop" /\ IsNaN(fr'.term))]_vars

\* C1: betain returns InvalidBetaParameters whenever "p > 0 and q > 0" does
\* not hold, otherwise InvalidProbability whenever x is outside [0,1],
\* otherwise a value; an error returns before log-beta is computed and before
\* any pass of the loop.
C1_ValidationOrder ==
    IsCall("betain") =>
        IF ~Positive(Arg(1), Arg(2))
        THEN ret = Err("InvalidBetaParameters") /\ pc = "done"
                /\ lbetaCalls = 0 /\ iters = 0
        ELSE IF ~InUnitInterval(Arg(3))
        THEN ret = Err("InvalidProbability") /\ pc = "done"
                /\ lbetaCalls = 0 /\ iters = 0
        ELSE ret.k \in {"ok", "pending"}

\* C2: for p > 0 and q > 0 and any lnbeta argument, betain(p,q,0,_) returns
\* exactly 0 and betain(p,q,1,_) exactly 1, without entering the loop and
\* without computing log-beta.
C2_Boundary ==
    (IsCall("betain") /\ Positive(Arg(1), Arg(2)) /\ Arg(3) \in {Zero, One}) =>
        /\ ret = Ok(Arg(3))
        /\ pc = "done"
        /\ fr = NoFrame
        /\ iters = 0
        /\ lbetaCalls = 0

C2_Witness ==
    /\ IsCall("betain")
    /\ Positive(Arg(1), Arg(2))
    /\ Arg(3) = One
    /\ Arg(4) = None
    /\ ret = Ok(One)

\* the region conditions of _pnorm, each stated on its own
RegionHolds(r, x, lower_tail) ==
    LET y == FAbs(x)
    IN  IF r = "A" THEN FLe(y, Fin(A_MAX))
        ELSE IF r = "B" THEN FLt(Fin(A_MAX), y) /\ FLe(y, Fin(M_SQRT_32))
        ELSE IF r = "C" THEN FLt(Fin(M_SQRT_32), y) /\ InRangeC(x, lower_tail)
        ELSE FLt(Fin(M_SQRT_32), y) /\ ~InRangeC(x, lower_tail)

\* the magnitude a region's result is built on
Core(v) == IF v.k = "1-" THEN v.of ELSE v

ComputedBy(r, v) ==
    IF r = "A" THEN v.k = "0.5+"
    ELSE IF r = "B" THEN Core(v).k = "exp*" /\ Core(v).temp.k = "ratCD"
    ELSE IF r = "C" THEN Core(v).k = "exp*" /\ Core(v).temp.k = "ratPQ"
    ELSE v \in {Zero, One}

\* C3: pnorm returns for every z and both tails: the four infinite cases give
\* exactly 0, 1, 1, 0 with no approximation, NaN gives NaN, and every finite z
\* is computed by exactly one branch of _pnorm (regions A, B, C, underflow).
C3_PnormTotal ==
    IsCall("pnorm") =>
        /\ pc = "done"
        /\ ret.k = "val"
        /\ (Arg(1) = NInf => ret.v = (IF Arg(2) THEN Zero ELSE One))
        /\ (Arg(1) = PInf => ret.v = (IF Arg(2) THEN One ELSE Zero))
        /\ (IsNaN(Arg(1)) => ret.v = NaN)
        /\ (IsFin(Arg(1)) =>
              /\ Cardinality({r \in {"A", "B", "C", "U"} :
                                 RegionHolds(r, Arg(1), Arg(2))}) = 1
              /\ \A r \in {"A", "B", "C", "U"} :
                    RegionHolds(r, Arg(1), Arg(2)) <=> ComputedBy(r, ret.v))

C3_Witness == IsCall("pnorm") /\ IsNaN(Arg(1)) /\ ret = Val(NaN)

\* C4: once StudentsT::new(v) has returned a context, dt(t), ldt(t) and pt(t)
\* return a value for every t: the unwrap in the CDF helper never aborts.
C4_QueriesNeverFail ==
    (IsCall("dt") \/ IsCall("ldt") \/ IsCall("pt")) => (ret.k = "val" /\ pc = "done")

\* C5: betain's loop does not run forever: every call that enters the loop
\* eventually returns (a value, or an error for non-convergence).
C5_LoopTerminates == (pc = "loop") ~> (pc = "done")

\* (p + q) * x, and with it (p + q) * (1 - x), is computed without rounding
ExactProduct(p, q, x) == (FAdd(p, q).v * x.v) % Scale = 0

SameArgs(a, b) == a.xx = b.xx /\ a.cx = b.cx /\ a.pp = b.pp /\ a.qq = b.qq

\* C6 as claimed, on finite p, q > 0 and x in [0,1] whose product (p+q)*x is
\* exact: the tail selections of betain(p,q,x) and betain(q,p,1-x) give the
\* same (xx, cx, pp, qq), and exactly one of the two calls flips.
C6_TailSymmetry ==
    (IsCall("betain") /\ IsFin(Arg(1)) /\ IsFin(Arg(2)) /\ Positive(Arg(1), Arg(2))
        /\ InUnitInterval(Arg(3)) /\ ExactProduct(Arg(1), Arg(2), Arg(3))) =>
        /\ SameArgs(TailSelect(Arg(1), Arg(2), Arg(3)),
                    TailSelect(Arg(2), Arg(1), FSub(One, Arg(3))))
        /\ TailSelect(Arg(1), Arg(2), Arg(3)).flip
              # TailSelect(Arg(2), Arg(1), FSub(One, Arg(3))).flip

\* the case C6 is about: a returned call on finite p, q > 0 and 0 < x < 1 with
\* no cached log-beta, whose product (p + q) * x is exact
C6_Case ==
    /\ IsCall("betain")
    /\ pc = "done"
    /\ ret.k = "ok"
    /\ IsFin(Arg(1)) /\ IsFin(Arg(2))
    /\ Positive(Arg(1), Arg(2))
    /\ FLt(Zero, Arg(3)) /\ FLt(Arg(3), One)
    /\ Arg(4) = None
    /\ ExactProduct(Arg(1), Arg(2), Arg(3))

\* C6 amended: in that case, if p # (p+q)*x the call and its mirror
\* betain(q,p,1-x) work on the same (xx, cx, pp, qq), sum the same series with
\* the same log-beta, and exactly one of them flips, so that they return
\* value and 1 - value; if p = (p+q)*x neither call flips and the mirror
\* works on the swapped arguments (cx, xx, qq, pp).  (On the grid p + q and
\* 1 - x are always exact.)
C6_TailSymmetryAmended ==
    C6_Case =>
        LET m == Betain(Arg(2), Arg(1), FSub(One, Arg(3)), None)
        IN  /\ m.k = "ok"
            /\ IF Arg(1) # FMul(FAdd(Arg(1), Arg(2)), Arg(3))
               THEN /\ fr.flip # m.v.flip
                    /\ ret.v = [m.v EXCEPT !.flip = fr.flip]
                    /\ SameArgs(fr, m.v)
               ELSE /\ ~fr.flip
                    /\ ~m.v.flip
                    /\ m.v.xx = fr.cx /\ m.v.cx = fr.xx
                    /\ m.v.pp = fr.qq /\ m.v.qq = fr.pp

C6_Witness ==
    /\ C6_Case
    /\ Arg(1) # FMul(FAdd(Arg(1), Arg(2)), Arg(3))
    /\ Arg(1) # Arg(2)
    /\ fr.flip
    /\ iters > 2

\* C7: for every finite z, pnorm(-z, true) equals pnorm(z, false), and the two
\* calls are computed by the same branch of _pnorm.
C7_PnormSymmetry ==
    (IsCall("pnorm") /\ IsFin(Arg(1)) /\ ~Arg(2)) =>
        /\ ret.v = Pnorm(FNeg(Arg(1)), TRUE)
        /\ PnormRegion(Arg(1), FALSE) = PnormRegion(FNeg(Arg(1)), TRUE)

\* C8: the cached log-beta changes nothing: for valid p, q and x in [0,1]
\* betain(p,q,x,Some(lbeta(p,q))) and betain(p,q,x,None) return the same, and
\* for v > 0 the free pt(t, v) and StudentsT::new(v).pt(t) return the same
\* value (or abort together).
C8_CachedLnbeta ==
    /\ (IsCall("betain") /\ pc = "done" /\ Positive(Arg(1), Arg(2))
            /\ InUnitInterval(Arg(3))) =>
          /\ (Arg(4) = None =>
                ret = Betain(Arg(1), Arg(2), Arg(3), Some(LBeta(Arg(1), Arg(2)).v)))
          /\ (Arg(4) = Some(LBeta(Arg(1), Arg(2)).v) =>
                ret = Betain(Arg(1), Arg(2), Arg(3), None))
    /\ (IsCall("pt") /\ FLt(Zero, ctx.v.v)) =>
          /\ (ret.k = "val") = (FreePt(Arg(1), ctx.v.v).k = "ok")
          /\ (ret.k = "val" => ret.v = FreePt(Arg(1), ctx.v.v).v)
          /\ (ret.k # "val" => ret = FreePt(Arg(1), ctx.v.v))
    /\ (IsCall("free_pt") /\ FLt(Zero, Arg(2)) /\ StudentsTNew(Arg(2)).k = "ok") =>
          ret = OkOf(StudentsTCdf(Arg(1), Arg(2), Some(StudentsTNew(Arg(2)).v.lnbeta)))

C8_Witness ==
    /\ IsCall("pt")
    /\ IsFin(ctx.v.v)
    /\ ret.k = "val"
    /\ Core(ret.v).k = "0.5*"
    /\ ret.v = FreePt(Arg(1), ctx.v.v).v

\* C9: for finite x with |x| > sqrt(32), region C runs exactly when
\* (lower tail and x in [-37.5193, 8.2924)) or (upper tail and x in
\* (-8.2924, 37.5193]); every other such x returns swap_tail(x, 0.0).
C9_RegionCRange ==
    (IsCall("pnorm") /\ IsFin(Arg(1)) /\ FLt(Fin(M_SQRT_32), FAbs(Arg(1)))) =>
        LET x == Arg(1)
            inC == \/ Arg(2) /\ FLe(Fin(-X_FAR), x) /\ FLt(x, Fin(X_NEAR))
                   \/ ~Arg(2) /\ FLt(Fin(-X_NEAR), x) /\ FLe(x, Fin(X_FAR))
        IN  IF inC THEN ComputedBy("C", ret.v)
            ELSE ret.v = (IF FLt(x, Zero) = Arg(2) THEN Zero ELSE One)

\* the regime of the countdown: Descending, Pivot, Ascending
Regime(ns) == IF ns > 0 THEN 1 ELSE IF ns = 0 THEN 2 ELSE 3

\* what holds of the locals whenever the term is about to be updated
AtTermUpdate(f, n) ==
    /\ (n = 0 => f.ns >= 0)
    /\ f.rx = (IF f.ns > 0 THEN FDiv(f.xx, f.cx) ELSE f.xx)
    /\ (f.ns >= 0 => f.temp = FSub(f.qq, f.ai))

\* C10: ns is >= 0 at loop entry and falls by exactly 1 per pass while ai
\* rises by 1; the regime only moves forward; at every term update rx is
\* xx/cx if ns > 0 and xx if ns <= 0, and temp is qq - ai while ns >= 0; once
\* ns < 0 a pass takes temp from the current psq and then adds 1 to psq, and
\* psq is unchanged in the other two regimes.
C10_NsRegimes ==
    [][/\ (pc' = "loop" => AtTermUpdate(fr', iters'))
       /\ (pc = "loop" /\ pc' = "loop") =>
             /\ fr'.ns = fr.ns - 1
             /\ fr'.ai = FAdd(fr.ai, One)
             /\ Regime(fr'.ns) >= Regime(fr.ns)
             /\ IF fr'.ns < 0
                THEN fr'.temp = fr.psq /\ fr'.psq = FAdd(fr.psq, One)
                ELSE fr'.psq = fr.psq]_vars

\* a pass in the Ascending regime of a loop that was entered Descending
C10_Witness ==
    /\ pc = "loop"
    /\ IsFin(fr.term)
    /\ fr.ns < -1
    /\ fr.ns + iters > 0

====
